---- MODULE Spec2Model ----
(***************************************************************************)
(* PropelETLPipeline (etl_pipeline.py): a four-stage batch job             *)
(*   load_raw_data -> clean_data -> generate_summaries -> export_data      *)
(* run by run() from the __main__ block.                                   *)
(*                                                                         *)
(* A table cell is a record [k, v]: k is the Python type of the value,     *)
(* v its payload.  Text is a sequence of one-character strings, so that    *)
(* str(), lower(), strip() and date parsing are computed character by      *)
(* character.                                                              *)
(***************************************************************************)
EXTENDS Integers, Sequences, FiniteSets

(***************************************************************************)
(* Bounds of the model.                                                    *)
(***************************************************************************)
MaxRows == 2

(***************************************************************************)
(* Cells.                                                                  *)
(***************************************************************************)
StrCell(s)   == [k |-> "str",   v |-> s]
IntCell(n)   == [k |-> "int",   v |-> n]
FloatCell(n) == [k |-> "float", v |-> n]      \* the float n.0
BoolCell(b)  == [k |-> "bool",  v |-> b]
DateCell(y, m, d) == [k |-> "date", v |-> <<y, m, d>>]
NaN          == [k |-> "nan",   v |-> 0]      \* NaN / NaT / empty cell

\* pd.notna
notna(c) == c.k # "nan"

(***************************************************************************)
(* Text.                                                                   *)
(***************************************************************************)
UpperChars == <<"A","B","C","D","E","F","G","H","I","J","K","L","M",
                "N","O","P","Q","R","S","T","U","V","W","X","Y","Z">>
LowerChars == <<"a","b","c","d","e","f","g","h","i","j","k","l","m",
                "n","o","p","q","r","s","t","u","v","w","x","y","z">>
DigitChars == <<"0","1","2","3","4","5","6","7","8","9">>

IndexIn(seq, c) == IF \E i \in 1..Len(seq) : seq[i] = c
                   THEN CHOOSE i \in 1..Len(seq) : seq[i] = c
                   ELSE 0

LowerChar(c) == IF IndexIn(UpperChars, c) > 0 THEN LowerChars[IndexIn(UpperChars, c)] ELSE c
UpperChar(c) == IF IndexIn(LowerChars, c) > 0 THEN UpperChars[IndexIn(LowerChars, c)] ELSE c

\* str.lower
lower(s) == [i \in 1..Len(s) |-> LowerChar(s[i])]

\* str.strip: drop leading and trailing blanks
RECURSIVE lstrip(_)
lstrip(s) == IF s # <<>> /\ Head(s) = " " THEN lstrip(Tail(s)) ELSE s
RECURSIVE rstrip(_)
rstrip(s) == IF s # <<>> /\ s[Len(s)] = " " THEN rstrip(SubSeq(s, 1, Len(s) - 1)) ELSE s
strip(s) == rstrip(lstrip(s))

\* str.capitalize: first character upper, the rest lower
capitalize(s) == [i \in 1..Len(s) |-> IF i = 1 THEN UpperChar(s[i]) ELSE LowerChar(s[i])]

\* decimal digits of a natural number
RECURSIVE NatToStr(_)
NatToStr(n) == IF n < 10 THEN <<DigitChars[n + 1]>>
               ELSE NatToStr(n \div 10) \o <<DigitChars[(n % 10) + 1]>>

IntToStr(n) == IF n < 0 THEN <<"-">> \o NatToStr(-n) ELSE NatToStr(n)

Pad2(n) == IF n < 10 THEN <<"0">> \o NatToStr(n) ELSE NatToStr(n)

\* Python str(x)
PyStr(c) ==
    CASE c.k = "str"   -> c.v
      [] c.k = "int"   -> IntToStr(c.v)
      [] c.k = "float" -> IntToStr(c.v) \o <<".", "0">>
      [] c.k = "bool"  -> IF c.v THEN <<"T","r","u","e">> ELSE <<"F","a","l","s","e">>
      [] c.k = "nan"   -> <<"n","a","n">>
      [] c.k = "date"  -> NatToStr(c.v[1]) \o <<"-">> \o Pad2(c.v[2]) \o <<"-">> \o Pad2(c.v[3])

(***************************************************************************)
(* Dates.                                                                  *)
(***************************************************************************)
IsDigit(c) == IndexIn(DigitChars, c) > 0
DigitVal(c) == IndexIn(DigitChars, c) - 1

IsLeap(y) == (y % 4 = 0 /\ y % 100 # 0) \/ y % 400 = 0
DaysInMonth(y, m) ==
    IF m = 2 THEN (IF IsLeap(y) THEN 29 ELSE 28)
    ELSE IF m \in {4, 6, 9, 11} THEN 30 ELSE 31

\* days from 0001-01-01 to y-m-d
RECURSIVE DaysBeforeMonth(_, _)
DaysBeforeMonth(y, m) == IF m = 1 THEN 0
                         ELSE DaysBeforeMonth(y, m - 1) + DaysInMonth(y, m - 1)
DayNumber(d) ==
    LET y == d[1] - 1
    IN  365 * y + (y \div 4) - (y \div 100) + (y \div 400)
        + DaysBeforeMonth(d[1], d[2]) + d[3]

\* the text "YYYY-MM-DD" as a date; anything else is not a date
ParseIso(s) ==
    IF /\ Len(s) = 10
       /\ s[5] = "-" /\ s[8] = "-"
       /\ \A i \in {1, 2, 3, 4, 6, 7, 9, 10} : IsDigit(s[i])
    THEN LET y == 1000 * DigitVal(s[1]) + 100 * DigitVal(s[2])
                  + 10 * DigitVal(s[3]) + DigitVal(s[4])
             m == 10 * DigitVal(s[6]) + DigitVal(s[7])
             d == 10 * DigitVal(s[9]) + DigitVal(s[10])
         IN  IF y >= 1 /\ m \in 1..12 /\ d \in 1..DaysInMonth(y, m)
             THEN DateCell(y, m, d)
             ELSE NaN
    ELSE NaN

\* pd.to_datetime(x, errors='coerce') of one cell: unparseable -> NaT
to_datetime(c) ==
    CASE c.k = "date" -> c
      [] c.k = "nan"  -> NaN
      [] c.k = "str"  -> ParseIso(strip(c.v))

MonthNames == <<
    <<"J","a","n","u","a","r","y">>,
    <<"F","e","b","r","u","a","r","y">>,
    <<"M","a","r","c","h">>,
    <<"A","p","r","i","l">>,
    <<"M","a","y">>,
    <<"J","u","n","e">>,
    <<"J","u","l","y">>,
    <<"A","u","g","u","s","t">>,
    <<"S","e","p","t","e","m","b","e","r">>,
    <<"O","c","t","o","b","e","r">>,
    <<"N","o","v","e","m","b","e","r">>,
    <<"D","e","c","e","m","b","e","r">> >>

\* Series.dt.strftime('%B %Y') of one cell: NaT -> NaN
strftime_BY(c) ==
    IF notna(c)
    THEN StrCell(MonthNames[c.v[2]] \o <<" ">> \o NatToStr(c.v[1]))
    ELSE NaN

(***************************************************************************)
(* Data frames: [columns: the set of column names, rows: a sequence of     *)
(* rows], each row a function from the column names to cells.              *)
(***************************************************************************)
DateColumns == <<"Registration_Date", "Campaign_Start_Date",
                 "Campaign_End_Date", "Attendance_Date">>

Column(t, c) == [i \in 1..Len(t.rows) |-> t.rows[i][c]]

\* df[c] = values
SetColumn(t, c, values) ==
    [columns |-> t.columns \cup {c},
     rows    |-> [i \in 1..Len(t.rows) |->
                    [x \in t.columns \cup {c} |->
                        IF x = c THEN values[i] ELSE t.rows[i][x]]]]

\* the outcome of the statements executed so far: the frame they made, and
\* whether one raised. Every step below takes the outcome so far as r and is
\* skipped when a statement before it raised.
Ok(t)     == [ok |-> TRUE,  t |-> t]
Raised(t) == [ok |-> FALSE, t |-> t]

\* Series.str.strip().str.capitalize(): the .str accessor needs an object
\* column (one holding text, or an empty one); non-text cells become NaN
IsObjectColumn(col) == Len(col) = 0 \/ \E i \in 1..Len(col) : col[i].k = "str"
NormalizeCountryCell(c) == IF c.k = "str" THEN StrCell(capitalize(strip(c.v))) ELSE NaN
StandardizeCountry(r) ==
    IF ~r.ok THEN r
    ELSE IF "Country" \notin r.t.columns \/ ~IsObjectColumn(Column(r.t, "Country"))
    THEN Raised(r.t)
    ELSE Ok(SetColumn(r.t, "Country",
              [i \in 1..Len(r.t.rows) |-> NormalizeCountryCell(r.t.rows[i]["Country"])]))

\* a conversion that drops the rows whose value does not parse
ConvertDateDropping(r, col) ==
    IF ~r.ok THEN r
    ELSE IF col \notin r.t.columns
    THEN Raised(r.t)
    ELSE LET kept == [columns |-> r.t.columns,
                      rows    |-> SelectSeq(r.t.rows, LAMBDA q : to_datetime(q[col]) # NaN)]
         IN  Ok(SetColumn(kept, col,
                  [i \in 1..Len(kept.rows) |-> to_datetime(kept.rows[i][col])]))

\* df[col] = pd.to_datetime(df[col], errors='coerce')
ConvertDate(r, col) ==
    IF ~r.ok THEN r
    ELSE IF col \notin r.t.columns
    THEN Raised(r.t)
    ELSE Ok(SetColumn(r.t, col,
              [i \in 1..Len(r.t.rows) |-> to_datetime(r.t.rows[i][col])]))

\* for col in date_columns
ConvertDates(r) ==
    ConvertDate(ConvertDate(ConvertDate(ConvertDate(r,
        DateColumns[1]), DateColumns[2]), DateColumns[3]), DateColumns[4])

\* the list the lambda tests membership in: ['yes', 'true', 1, '1']
TruthyList == <<StrCell(<<"y","e","s">>), StrCell(<<"t","r","u","e">>),
                IntCell(1), StrCell(<<"1">>)>>

\* lambda x: True if str(x).lower() in ['yes', 'true', 1, '1'] else False
NormalizeBool(x) ==
    LET s == StrCell(lower(PyStr(x)))
    IN  BoolCell(\E i \in 1..Len(TruthyList) : TruthyList[i] = s)

StandardizeBool(r, col) ==
    IF ~r.ok THEN r
    ELSE IF col \notin r.t.columns
    THEN Raised(r.t)
    ELSE Ok(SetColumn(r.t, col,
              [i \in 1..Len(r.t.rows) |-> NormalizeBool(r.t.rows[i][col])]))

\* df[dst] = df[src].dt.strftime('%B %Y')
DeriveMonth(r, src, dst) ==
    IF ~r.ok THEN r
    ELSE Ok(SetColumn(r.t, dst,
              [i \in 1..Len(r.t.rows) |-> strftime_BY(r.t.rows[i][src])]))

\* (df['Campaign_End_Date'] - df['Campaign_Start_Date']).dt.days: an integer
\* column, or a float column with NaN as soon as one difference is NaT
DeriveDuration(r) ==
    LET known(i) == /\ notna(r.t.rows[i]["Campaign_End_Date"])
                    /\ notna(r.t.rows[i]["Campaign_Start_Date"])
        days(i)  == DayNumber(r.t.rows[i]["Campaign_End_Date"].v)
                    - DayNumber(r.t.rows[i]["Campaign_Start_Date"].v)
        allKnown == \A i \in 1..Len(r.t.rows) : known(i)
    IN  IF ~r.ok THEN r
        ELSE Ok(SetColumn(r.t, "Campaign_Duration_Days",
                  [i \in 1..Len(r.t.rows) |->
                      IF allKnown THEN IntCell(days(i))
                      ELSE IF known(i) THEN FloatCell(days(i)) ELSE NaN]))

StatusAttended       == StrCell(<<"A","t","t","e","n","d","e","d">>)
StatusRegisteredNoAttendance == StrCell(<<"R","e","g","i","s","t","e","r","e","d"," ","-"," ",
                                    "N","o"," ","A","t","t","e","n","d","a","n","c","e">>)
StatusNotRegistered  == StrCell(<<"N","o","t"," ","R","e","g","i","s","t","e","r","e","d">>)

\* the two tests in the other order
get_attendance_status_RegisteredFirst(row) ==
    IF row["Registered"].v
    THEN (IF notna(row["Attendance_Date"]) THEN StatusAttended
          ELSE StatusRegisteredNoAttendance)
    ELSE StatusNotRegistered

get_attendance_status(row) ==
    IF notna(row["Attendance_Date"]) THEN StatusAttended
    ELSE IF row["Registered"].v THEN StatusRegisteredNoAttendance
    ELSE StatusNotRegistered

\* df['Attendance_Status'] = df.apply(get_attendance_status, axis=1).
\* On a frame without rows apply() returns a frame, not a column, and the
\* assignment of it (and the percentages of the metrics that follow, which
\* divide by len(df)) raise or not with the library's version: emptyRaises.
DeriveStatus(r, emptyRaises) ==
    IF ~r.ok THEN r
    ELSE IF Len(r.t.rows) = 0 /\ emptyRaises
    THEN Raised(r.t)
    ELSE Ok(SetColumn(r.t, "Attendance_Status",
              [i \in 1..Len(r.t.rows) |-> get_attendance_status(r.t.rows[i])]))

\* the body of clean_data on the copy of the raw frame, statement by
\* statement; one that raises leaves the frame as those before it made it
CleanFrame(t, emptyRaises) ==
    DeriveStatus(
      DeriveDuration(
        DeriveMonth(
          DeriveMonth(
            StandardizeBool(
              StandardizeBool(
                ConvertDates(
                  StandardizeCountry(Ok(t))),
                "Registered"),
              "Attended"),
            "Registration_Date", "Registration_Month"),
          "Attendance_Date", "Attendance_Month")),
      emptyRaises)

(***************************************************************************)
(* generate_summaries: DataFrame.groupby drops the rows whose key is NaN   *)
(* (dropna=True is the default).                                           *)
(***************************************************************************)
\* groupby(..., dropna=False): the missing key is a group
GroupKeysKeepNaN(t, col) == {t.rows[i][col] : i \in 1..Len(t.rows)}
\* groups taken from the registered rows only
GroupKeysOfRegistered(t, col) ==
    {t.rows[i][col] : i \in {j \in 1..Len(t.rows) : t.rows[j]["Registered"].v}} \ {NaN}
GroupKeys(t, col) == {t.rows[i][col] : i \in 1..Len(t.rows)} \ {NaN}
\* an aggregation over the whole frame instead of the group
GroupRowsAll(t, col, key) == 1..Len(t.rows)
GroupRows(t, col, key) == {i \in 1..Len(t.rows) : t.rows[i][col] = key}

\* groupby('Campaign_Name').agg({'Registered': 'sum', 'Attendance_Date': 'count'})
\*   .rename(columns={'Attendance_Date': 'Attended'})
CampaignSummary(t) ==
    [key \in GroupKeys(t, "Campaign_Name") |->
        LET g == GroupRows(t, "Campaign_Name", key)
        IN  [Registered |-> Cardinality({i \in g : t.rows[i]["Registered"].v}),
             Attended   |-> Cardinality({i \in g : notna(t.rows[i]["Attendance_Date"])})]]

\* groupby(col).size().to_frame(name=...)
SizeSummary(t, col) ==
    [key \in GroupKeys(t, col) |-> Cardinality(GroupRows(t, col, key))]

Put(d, key, value) == [x \in DOMAIN d \cup {key} |-> IF x = key THEN value ELSE d[x]]

\* the body of generate_summaries: a missing grouping column raises KeyError
\* and leaves self.summaries as the steps before it made it
Summaries(t, before) ==
    IF "Campaign_Name" \notin t.columns THEN [ok |-> FALSE, d |-> before]
    ELSE LET s1 == Put(before, "campaigns", CampaignSummary(t))
             s2 == Put(s1, "countries", SizeSummary(t, "Country"))
             s3 == Put(s2, "monthly", SizeSummary(t, "Registration_Month"))
         IN  [ok |-> TRUE, d |-> s3]

(***************************************************************************)
(* export_data.                                                            *)
(***************************************************************************)
\* Series.astype(str) of one cell
astype_str(c) == StrCell(PyStr(c))

Stringify(t, col) ==
    SetColumn(t, col, [i \in 1..Len(t.rows) |-> astype_str(t.rows[i][col])])

\* df_export with Registered and Attended as text
ExportFrame(t) == Stringify(Stringify(t, "Registered"), "Attended")

\* to_csv writes every cell as text, a missing value as the empty text
CsvCell(c) == IF notna(c) THEN PyStr(c) ELSE <<>>
CsvContent(t) ==
    [columns |-> t.columns,
     rows    |-> [i \in 1..Len(t.rows) |-> [x \in t.columns |-> CsvCell(t.rows[i][x])]]]

(***************************************************************************)
(* The heap of data frames: a frame is an object, self.df_raw and          *)
(* self.df_clean are references to frames (0 is None).                     *)
(***************************************************************************)
\* an assignment without copy(): the same frame under a second name
copyAlias(h, ref) == [heap |-> h, ref |-> ref]

\* DataFrame.copy(): a new frame with the same content
copy(h, ref) == [heap |-> Append(h, h[ref]), ref |-> Len(h) + 1]

(***************************************************************************)
(* The inputs: the sheet 'Sheet1' of the input file as read_excel reads it. *)
(***************************************************************************)
RawColumns == {"Country", "Registration_Date", "Campaign_Start_Date",
               "Campaign_End_Date", "Attendance_Date", "Registered",
               "Attended", "Campaign_Name"}

T_Yes  == StrCell(<<"Y","e","s">>)
T_no   == StrCell(<<"n","o">>)
T_TRUE == StrCell(<<"T","R","U","E">>)
T_bad  == StrCell(<<"n","/","a">>)
T_Jan15 == StrCell(<<"2","0","2","4","-","0","1","-","1","5">>)
T_Feb20 == StrCell(<<"2","0","2","4","-","0","2","-","2","0">>)
T_Jan01 == StrCell(<<"2","0","2","4","-","0","1","-","0","1">>)
T_Jan11 == StrCell(<<"2","0","2","4","-","0","1","-","1","1">>)
T_Feb30 == StrCell(<<"2","0","2","4","-","0","2","-","3","0">>)

\* registration and attendance of a row
AttendanceProfiles == {
    [Registered |-> T_Yes,         Attended |-> T_Yes,       Attendance_Date |-> T_Feb20],
    [Registered |-> T_no,          Attended |-> BoolCell(TRUE), Attendance_Date |-> DateCell(2024, 3, 1)],
    [Registered |-> T_TRUE,        Attended |-> NaN,         Attendance_Date |-> NaN],
    [Registered |-> FloatCell(1),  Attended |-> IntCell(1),  Attendance_Date |-> T_bad],
    [Registered |-> NaN,           Attended |-> IntCell(0),  Attendance_Date |-> T_Feb30] }

\* campaign of a row
CampaignProfiles == {
    [Campaign_Name |-> StrCell(<<"A">>), Country |-> StrCell(<<" ","u","s","a"," ">>),
     Registration_Date |-> T_Jan15, Campaign_Start_Date |-> T_Jan01, Campaign_End_Date |-> T_Jan11],
    [Campaign_Name |-> StrCell(<<"A">>), Country |-> StrCell(<<"U","K">>),
     Registration_Date |-> T_bad,   Campaign_Start_Date |-> T_Jan01, Campaign_End_Date |-> NaN],
    [Campaign_Name |-> StrCell(<<"B">>), Country |-> StrCell(<<"U","s","a">>),
     Registration_Date |-> T_Feb20, Campaign_Start_Date |-> DateCell(2023, 12, 25), Campaign_End_Date |-> T_Jan11],
    [Campaign_Name |-> NaN, Country |-> NaN,
     Registration_Date |-> NaN,     Campaign_Start_Date |-> T_Jan01, Campaign_End_Date |-> T_Jan11] }

RawRows == {[x \in RawColumns |-> IF x \in DOMAIN a THEN a[x] ELSE c[x]] :
                a \in AttendanceProfiles, c \in CampaignProfiles}

\* sheets with every column, of 0..MaxRows rows
FullSheets == {[columns |-> RawColumns, rows |-> r] :
                  r \in UNION {[1..n -> RawRows] : n \in 0..MaxRows}}

\* sheets of one row that lack one column
DropColumn(t, c) ==
    [columns |-> t.columns \ {c},
     rows    |-> [i \in 1..Len(t.rows) |-> [x \in t.columns \ {c} |-> t.rows[i][x]]]]
PartialSheets == {DropColumn([columns |-> RawColumns, rows |-> <<r>>], c) :
                     r \in {q \in RawRows : q["Registered"] = T_Yes /\ q["Country"].k = "str"},
                     c \in RawColumns}

NoSheet == [columns |-> {}, rows |-> <<>>]
InputFiles == {[readable |-> FALSE, sheet |-> NoSheet]}
              \cup {[readable |-> TRUE, sheet |-> t] : t \in FullSheets \cup PartialSheets}

(***************************************************************************)
(* State.                                                                  *)
(***************************************************************************)
VARIABLES
    pc,          \* where the process is: Start (before the constructor), then
                 \* the state of the pipeline
    input_file,  \* the file at self.input_file
    output_dir,  \* what is at self.output_dir: "absent", "dir" or "file"
    heap,        \* the data frames allocated so far
    df_raw,      \* self.df_raw: a reference into heap, 0 for None
    df_clean,    \* self.df_clean
    df_export,   \* df_export of export_data
    summaries,   \* self.summaries
    files,       \* the files written under output_dir
    log,         \* the stage messages logged so far
    success,     \* what run() returned: "unset", "True", "False"
    exitCode     \* <<>> while the process runs, then <<code>>

vars == <<pc, input_file, output_dir, heap, df_raw, df_clean, df_export,
          summaries, files, log, success, exitCode>>

NoSummaries == [x \in {} |-> 0]
NoFiles     == [x \in {} |-> 0]

Init ==
    /\ pc = "Start"
    /\ input_file \in InputFiles
    /\ output_dir \in {"absent", "dir", "file"}
    /\ heap = <<>>
    /\ df_raw = 0
    /\ df_clean = 0
    /\ df_export = 0
    /\ summaries = NoSummaries
    /\ files = NoFiles
    /\ log = <<>>
    /\ success = "unset"
    /\ exitCode = <<>>

(***************************************************************************)
(* __init__ (run from __main__): output_dir.mkdir(parents=True,            *)
(* exist_ok=True) creates the directory, accepts an existing one, and      *)
(* raises FileExistsError when the path is a file; the exception is not    *)
(* caught, and the interpreter exits with code 1.                          *)
(***************************************************************************)
\* mkdir without exist_ok: an existing directory raises too
mkdirStrict(d) == IF d = "absent" THEN [ok |-> TRUE, d |-> "dir"] ELSE [ok |-> FALSE, d |-> d]
mkdir(d) == IF d = "file" THEN [ok |-> FALSE, d |-> d] ELSE [ok |-> TRUE, d |-> "dir"]

Construct ==
    /\ pc = "Start"
    /\ LET m == mkdir(output_dir)
       IN  /\ output_dir' = m.d
           /\ IF m.ok
              THEN /\ pc' = "Init"
                   /\ log' = Append(log, "ETL Pipeline initialized")
                   /\ exitCode' = exitCode
              ELSE /\ pc' = "Crashed"
                   /\ log' = log
                   /\ exitCode' = <<1>>
    /\ df_raw' = 0
    /\ df_clean' = 0
    /\ summaries' = NoSummaries
    /\ UNCHANGED <<input_file, heap, df_export, files, success>>

(***************************************************************************)
(* run(): the four stages in sequence inside one try; the first exception  *)
(* is logged by the handler and run() returns False.                       *)
(***************************************************************************)
\* run() without the call of generate_summaries between clean and export
StageAtSkipping(p) ==
    CASE p = "Init"       -> "load_raw_data"
      [] p = "Loaded"     -> "clean_data"
      [] p = "Cleaned"    -> "export_data"
      [] p = "Exported"   -> "return True"
      [] OTHER            -> "none"

\* the statement of run() that executes in each state of the pipeline
StageAt(p) ==
    CASE p = "Init"       -> "load_raw_data"
      [] p = "Loaded"     -> "clean_data"
      [] p = "Cleaned"    -> "generate_summaries"
      [] p = "Summarized" -> "export_data"
      [] p = "Exported"   -> "return True"
      [] OTHER            -> "none"

\* except Exception as e: logger.error(...); return False
Handler(msgs) ==
    /\ log' = log \o msgs \o <<"Pipeline failed">>
    /\ success' = "False"
    /\ pc' = "Failed"

\* load_raw_data
Load ==
    /\ StageAt(pc) = "load_raw_data"
    /\ IF input_file.readable
       THEN /\ heap' = Append(heap, input_file.sheet)
            /\ df_raw' = Len(heap) + 1
            /\ log' = log \o <<"LOADING RAW DATA", "Data loaded">>
            /\ pc' = "Loaded"
            /\ success' = success
       ELSE /\ Handler(<<"LOADING RAW DATA", "Error loading data">>)
            /\ UNCHANGED <<heap, df_raw>>
    /\ UNCHANGED <<input_file, output_dir, df_clean, df_export, summaries, files, exitCode>>

\* clean_data: self.df_clean = self.df_raw.copy(), then the columns of
\* self.df_clean are assigned in place
Clean ==
    /\ StageAt(pc) = "clean_data"
    /\ \E emptyRaises \in BOOLEAN :
         LET c   == copy(heap, df_raw)
             res == CleanFrame(c.heap[c.ref], emptyRaises)
         IN  /\ df_clean' = c.ref
             /\ heap' = [c.heap EXCEPT ![c.ref] = res.t]
             /\ IF res.ok
                THEN /\ log' = log \o <<"CLEANING DATA", "DATA CLEANING COMPLETE">>
                     /\ pc' = "Cleaned"
                     /\ success' = success
                ELSE Handler(<<"CLEANING DATA">>)
    /\ UNCHANGED <<input_file, output_dir, df_raw, df_export, summaries, files, exitCode>>

\* generate_summaries
Summarize ==
    /\ StageAt(pc) = "generate_summaries"
    /\ LET res == Summaries(heap[df_clean], summaries)
       IN  /\ summaries' = res.d
           /\ IF res.ok
              THEN /\ log' = log \o <<"STEP 3: GENERATING SUMMARIES", "Monthly data aggregated">>
                   /\ pc' = "Summarized"
                   /\ success' = success
              ELSE Handler(<<"STEP 3: GENERATING SUMMARIES">>)
    /\ UNCHANGED <<input_file, output_dir, heap, df_raw, df_clean, df_export, files, exitCode>>

\* export_data: df_export = self.df_clean.copy(), its boolean columns made
\* text in place, then written as xlsx and as csv; a write may fail
Export ==
    /\ StageAt(pc) = "export_data"
    /\ \E failAt \in {"none", "xlsx", "csv"} :
         LET c == copy(heap, df_clean)
             e == ExportFrame(c.heap[c.ref])
         IN  /\ df_export' = c.ref
             /\ heap' = [c.heap EXCEPT ![c.ref] = e]
             /\ files' = CASE failAt = "xlsx" -> files
                           [] failAt = "csv"  -> Put(files, "propel_cleaned_data.xlsx", e)
                           [] failAt = "none" ->
                                Put(Put(files, "propel_cleaned_data.xlsx", e),
                                    "propel_cleaned_data.csv", CsvContent(e))
             /\ IF failAt = "none"
                THEN /\ log' = log \o <<"STEP 4: EXPORTING DATA & SUMMARIES", "CSV">>
                     /\ pc' = "Exported"
                     /\ success' = success
                ELSE Handler(<<"STEP 4: EXPORTING DATA & SUMMARIES">>)
    /\ UNCHANGED <<input_file, output_dir, df_raw, df_clean, summaries, exitCode>>

\* logger.info("ETL PIPELINE COMPLETED SUCCESSFULLY"); return True
Finish ==
    /\ StageAt(pc) = "return True"
    /\ log' = Append(log, "ETL PIPELINE COMPLETED SUCCESSFULLY")
    /\ success' = "True"
    /\ pc' = "Done"
    /\ UNCHANGED <<input_file, output_dir, heap, df_raw, df_clean, df_export,
                   summaries, files, exitCode>>

\* sys.exit(0) whatever run() returned
ExitStatusZero(ok) == 0

\* sys.exit(0 if success else 1)
ExitStatus(ok) == IF ok = "True" THEN 0 ELSE 1

MainExit ==
    /\ pc \in {"Done", "Failed"}
    /\ exitCode = <<>>
    /\ exitCode' = <<ExitStatus(success)>>
    /\ UNCHANGED <<pc, input_file, output_dir, heap, df_raw, df_clean, df_export,
                   summaries, files, log, success>>

Next ==
    \/ Construct
    \/ Load
    \/ Clean
    \/ Summarize
    \/ Export
    \/ Finish
    \/ MainExit

Spec == Init /\ [][Next]_vars

(***************************************************************************)
(* What the log tells: the stages started and the stages completed.        *)
(***************************************************************************)
StageStartMessages == <<"LOADING RAW DATA", "CLEANING DATA",
                        "STEP 3: GENERATING SUMMARIES",
                        "STEP 4: EXPORTING DATA & SUMMARIES">>
StageEndMessages   == <<"Data loaded", "DATA CLEANING COMPLETE",
                        "Monthly data aggregated", "CSV">>

Range(seq) == {seq[i] : i \in 1..Len(seq)}
IsPrefix(a, b) == Len(a) <= Len(b) /\ a = SubSeq(b, 1, Len(a))

Started   == SelectSeq(log, LAMBDA m : m \in Range(StageStartMessages))
Completed == SelectSeq(log, LAMBDA m : m \in Range(StageEndMessages))
HasFailed == "Pipeline failed" \in Range(log)

CleanCompleted     == Len(Completed) >= 2
SummarizeCompleted == Len(Completed) >= 3

RawRowsOf   == heap[df_raw].rows
CleanRowsOf == heap[df_clean].rows

RECURSIVE SumOver(_, _)
SumOver(f, S) == IF S = {} THEN 0
                 ELSE LET x == CHOOSE y \in S : TRUE
                      IN  f[x] + SumOver(f, S \ {x})

(***************************************************************************)
(* C1: run() moves only along Init -> Loaded -> Cleaned -> Summarized ->   *)
(* Exported -> Done, or to Failed; the four stages start at most once, in  *)
(* that order, each only after the stage before it completed, and no state *)
(* is entered twice.                                                       *)
(***************************************************************************)
PipelineEdges ==
    {<<"Init", "Loaded">>, <<"Loaded", "Cleaned">>, <<"Cleaned", "Summarized">>,
     <<"Summarized", "Exported">>, <<"Exported", "Done">>}
    \cup {<<p, "Failed">> : p \in {"Init", "Loaded", "Cleaned", "Summarized", "Exported"}}

StagesOf(p) == CASE p = "Init"       -> 0
                 [] p = "Loaded"     -> 1
                 [] p = "Cleaned"    -> 2
                 [] p = "Summarized" -> 3
                 [] p = "Exported"   -> 4
                 [] p = "Done"       -> 4

C1_StagesInOrder ==
    /\ [](/\ IsPrefix(Started, StageStartMessages)
          /\ IsPrefix(Completed, StageEndMessages)
          /\ pc \in {"Init", "Loaded", "Cleaned", "Summarized", "Exported", "Done"}
                => Len(Started) = StagesOf(pc) /\ Len(Completed) = StagesOf(pc)
          /\ pc = "Failed" => Len(Started) = Len(Completed) + 1)
    /\ [][pc \notin {"Start", "Crashed"} => <<pc, pc'>> \in PipelineEdges]_pc

C1_Witness == pc = "Done" /\ Started = StageStartMessages /\ Completed = StageEndMessages

(***************************************************************************)
(* C2: when a stage raises, no later stage runs, run() returns False and   *)
(* the exit code is 1; the exit code is 0 only when all four stages        *)
(* completed without error.                                                *)
(***************************************************************************)
C2_FailFast ==
    /\ [](/\ exitCode = <<0>> =>
                Completed = StageEndMessages /\ ~HasFailed /\ success = "True"
          /\ Len(Started) > Len(Completed) =>
                /\ HasFailed
                /\ pc = "Failed"
                /\ success = "False"
                /\ exitCode \in {<<>>, <<1>>}
          /\ HasFailed => Len(Started) = Len(Completed) + 1)
    /\ [][HasFailed => log' = log /\ pc' = pc /\ success' = success
                       /\ exitCode' = <<1>>]_vars

C2_Witness == /\ exitCode = <<1>>
              /\ Started = SubSeq(StageStartMessages, 1, 3)
              /\ Completed = SubSeq(StageEndMessages, 1, 2)
              /\ "propel_cleaned_data.xlsx" \notin DOMAIN files

(***************************************************************************)
(* C3: in the cleaned table Attendance_Status is 'Attended' when           *)
(* Attendance_Date is present, whatever Registered is; otherwise           *)
(* 'Registered - No Attendance' when Registered is true; otherwise         *)
(* 'Not Registered'.                                                       *)
(***************************************************************************)
C3_StatusPrecedence ==
    CleanCompleted =>
        \A i \in 1..Len(CleanRowsOf) :
            LET r == CleanRowsOf[i]
            IN  /\ r["Attendance_Status"] \in
                      {StatusAttended, StatusRegisteredNoAttendance, StatusNotRegistered}
                /\ r["Attendance_Date"] # NaN => r["Attendance_Status"] = StatusAttended
                /\ r["Attendance_Date"] = NaN /\ r["Registered"] = BoolCell(TRUE)
                      => r["Attendance_Status"] = StatusRegisteredNoAttendance
                /\ r["Attendance_Date"] = NaN /\ r["Registered"] = BoolCell(FALSE)
                      => r["Attendance_Status"] = StatusNotRegistered

C3_Witness ==
    /\ CleanCompleted
    /\ \E i \in 1..Len(CleanRowsOf) :
          /\ CleanRowsOf[i]["Attendance_Date"] # NaN
          /\ CleanRowsOf[i]["Registered"] = BoolCell(FALSE)
          /\ CleanRowsOf[i]["Attendance_Status"] = StatusAttended
    /\ \E i \in 1..Len(CleanRowsOf) :
          /\ CleanRowsOf[i]["Attendance_Date"] = NaN
          /\ CleanRowsOf[i]["Registered"] = BoolCell(TRUE)

(***************************************************************************)
(* C4: the normalized Registered and Attended are true exactly for the     *)
(* raw values "yes" and "true" in any letter case, the number 1 and the    *)
(* text "1", and false for every other value, a missing one included.      *)
(***************************************************************************)
IsTruthy(x) ==
    \/ x.k = "str" /\ lower(x.v) \in {<<"y","e","s">>, <<"t","r","u","e">>, <<"1">>}
    \/ x.k \in {"int", "float"} /\ x.v = 1
    \/ x.k = "bool" /\ x.v

C4_TruthySet ==
    CleanCompleted =>
        \A i \in 1..Len(CleanRowsOf) :
            /\ CleanRowsOf[i]["Registered"] = BoolCell(IsTruthy(RawRowsOf[i]["Registered"]))
            /\ CleanRowsOf[i]["Attended"] = BoolCell(IsTruthy(RawRowsOf[i]["Attended"]))

(***************************************************************************)
(* C5: the cleaned table and every exported table have exactly as many     *)
(* rows as the raw table, also when rows hold unparseable dates or         *)
(* unrecognized boolean text.                                              *)
(***************************************************************************)
C5_RowCountPreserved ==
    /\ CleanCompleted => Len(CleanRowsOf) = Len(RawRowsOf)
    /\ \A f \in DOMAIN files : Len(files[f].rows) = Len(RawRowsOf)

C5_Witness ==
    /\ DOMAIN files = {"propel_cleaned_data.xlsx", "propel_cleaned_data.csv"}
    /\ Len(RawRowsOf) >= 2
    /\ Len(files["propel_cleaned_data.csv"].rows) = Len(RawRowsOf)
    /\ \E i \in 1..Len(RawRowsOf) :
          /\ RawRowsOf[i]["Attendance_Date"] = T_bad
          /\ RawRowsOf[i]["Registration_Date"] = T_bad

(***************************************************************************)
(* C6: the campaign summary has exactly one group for each distinct        *)
(* Campaign_Name value of the cleaned table, the missing marker not being  *)
(* a value: no campaign is invented, none is dropped.                      *)
(***************************************************************************)
CampaignNames == {CleanRowsOf[i]["Campaign_Name"] : i \in 1..Len(CleanRowsOf)}

C6_CampaignKeys ==
    "campaigns" \in DOMAIN summaries =>
        /\ \A key \in DOMAIN summaries["campaigns"] : key \in CampaignNames
        /\ \A name \in CampaignNames : name.k # "nan" => name \in DOMAIN summaries["campaigns"]

C6_Witness ==
    /\ "campaigns" \in DOMAIN summaries
    /\ Cardinality(DOMAIN summaries["campaigns"]) = 2
    /\ \E i \in 1..Len(CleanRowsOf) : ~CleanRowsOf[i]["Registered"].v

(***************************************************************************)
(* C7 as stated: a row whose Registration_Date is missing or unparseable   *)
(* has the missing marker as Registration_Month and is counted in the      *)
(* monthly summary under a missing key, so that the Registrations counts   *)
(* sum to the row count of the cleaned table.                              *)
(***************************************************************************)
MonthlyTotal == SumOver(summaries["monthly"], DOMAIN summaries["monthly"])
UndatedRows  == {i \in 1..Len(CleanRowsOf) : to_datetime(RawRowsOf[i]["Registration_Date"]) = NaN}

C7_Original ==
    "monthly" \in DOMAIN summaries =>
        /\ \A i \in UndatedRows : CleanRowsOf[i]["Registration_Month"] = NaN
        /\ UndatedRows # {} => NaN \in DOMAIN summaries["monthly"]
        /\ MonthlyTotal = Len(CleanRowsOf)

(***************************************************************************)
(* C7 amended: a row whose Registration_Date is missing or unparseable has *)
(* the missing marker as Registration_Month and is left out of the monthly *)
(* summary, which has no missing key: the Registrations counts sum to the  *)
(* number of rows whose Registration_Date parsed.                          *)
(***************************************************************************)
C7_UndatedRowsDropped ==
    "monthly" \in DOMAIN summaries =>
        /\ \A i \in UndatedRows : CleanRowsOf[i]["Registration_Month"] = NaN
        /\ \A i \in 1..Len(CleanRowsOf) :
              i \notin UndatedRows => CleanRowsOf[i]["Registration_Month"] \in DOMAIN summaries["monthly"]
        /\ NaN \notin DOMAIN summaries["monthly"]
        /\ MonthlyTotal = Len(CleanRowsOf) - Cardinality(UndatedRows)

C7_Witness ==
    /\ "monthly" \in DOMAIN summaries
    /\ UndatedRows # {}
    /\ Cardinality(UndatedRows) < Len(CleanRowsOf)
    /\ \E i \in UndatedRows : RawRowsOf[i]["Registration_Date"] = T_bad

(***************************************************************************)
(* C8: for every group of the campaign summary, Attended is the number of  *)
(* rows of that campaign with an Attendance_Date, and never exceeds the    *)
(* number of rows of the cleaned table with that Campaign_Name.            *)
(***************************************************************************)
RowsOfCampaign(key) == {i \in 1..Len(CleanRowsOf) : CleanRowsOf[i]["Campaign_Name"] = key}

C8_AttendedBounded ==
    "campaigns" \in DOMAIN summaries =>
        \A key \in DOMAIN summaries["campaigns"] :
            /\ summaries["campaigns"][key].Attended <= Cardinality(RowsOfCampaign(key))
            /\ summaries["campaigns"][key].Attended =
                  Cardinality({i \in RowsOfCampaign(key) : CleanRowsOf[i]["Attendance_Date"].k = "date"})

C8_Witness ==
    /\ "campaigns" \in DOMAIN summaries
    /\ \E key \in DOMAIN summaries["campaigns"] :
          /\ summaries["campaigns"][key].Attended = 1
          /\ Cardinality(RowsOfCampaign(key)) = 1
    /\ \E i \in 1..Len(CleanRowsOf) :
          /\ CleanRowsOf[i]["Attendance_Date"].k = "date"
          /\ \E key \in DOMAIN summaries["campaigns"] :
                i \notin RowsOfCampaign(key) /\ summaries["campaigns"][key].Attended = 0

(***************************************************************************)
(* C9: nothing is changed after the stage that made it: clean_data leaves  *)
(* the raw table as loaded, generate_summaries and export_data leave the   *)
(* cleaned table as cleaned, with Registered and Attended still booleans,  *)
(* and export_data leaves the summaries as computed.                       *)
(***************************************************************************)
C9_NoLaterMutation ==
    /\ [](CleanCompleted =>
            /\ heap[df_raw] = input_file.sheet
            /\ \A i \in 1..Len(CleanRowsOf) :
                  /\ CleanRowsOf[i]["Registered"].k = "bool"
                  /\ CleanRowsOf[i]["Attended"].k = "bool")
    /\ [][/\ df_raw # 0 => df_raw' = df_raw /\ heap'[df_raw] = heap[df_raw]
          /\ CleanCompleted => df_clean' = df_clean /\ heap'[df_clean] = heap[df_clean]
          /\ SummarizeCompleted => summaries' = summaries]_vars

C9_Witness ==
    /\ pc = "Done"
    /\ Len(CleanRowsOf) >= 1
    /\ df_export \notin {0, df_clean, df_raw}
    /\ heap[df_export].rows[1]["Registered"].k = "str"
    /\ CleanRowsOf[1]["Registered"].k = "bool"
    /\ RawRowsOf[1]["Registered"] = T_Yes
    /\ RawRowsOf[1]["Country"] # CleanRowsOf[1]["Country"]

(***************************************************************************)
(* C10 as stated: the output directory is created, when absent, by the     *)
(* Exporter stage.                                                         *)
(***************************************************************************)
C10_Original ==
    [][output_dir = "absent" /\ output_dir' = "dir" => StageAt(pc) = "export_data"]_vars

(***************************************************************************)
(* C10 amended: the output directory is created, when absent, by the       *)
(* constructor, before any stage; the creation succeeds without change     *)
(* when the directory exists; no stage creates or changes it.              *)
(***************************************************************************)
C10_CreatedAtConstruction ==
    /\ [](pc \notin {"Start", "Crashed"} => output_dir = "dir")
    /\ [][/\ output_dir' # output_dir =>
               pc = "Start" /\ output_dir = "absent" /\ output_dir' = "dir"
          /\ pc = "Start" /\ output_dir \in {"absent", "dir"} =>
               pc' = "Init" /\ output_dir' = "dir" /\ exitCode' = <<>>]_vars

C10_Witness ==
    /\ pc = "Init"
    /\ output_dir = "dir"
    /\ Started = <<>>
    /\ DOMAIN files = {}

====
